---- MODULE Spec2Model ----
(***************************************************************************)
(* State-machine model of the simulation core of the browser shooter       *)
(* (src/src/game.js, class Game) and of its start button (main.js).        *)
(*                                                                         *)
(* Units.  Time is counted in units of 1/840 s, so that FIXED_STEP (1/60 s)*)
(* is 14 units, the frame clamp 0.1 s is 84 units, 1000 ms are 840 units   *)
(* and every weapon interval 1/fireRate is a whole number of units.        *)
(* Lengths are counted in 1/250 world units; a position is its (x, z).     *)
(* The wall clock is kept relative: for every timestamp t the code stores, *)
(* the model stores Date.now() - t, which is all the code reads of it.     *)
(*                                                                         *)
(* JavaScript runs one task at a time: pc says where the running task is.  *)
(* pc = "idle" is the event loop between tasks; every other value is a     *)
(* position inside _loop / _fixedUpdate / _shoot / _updateEnemies, and     *)
(* while pc # "idle" only the continuation of that task is enabled.        *)
(***************************************************************************)
EXTENDS Integers, Sequences, FiniteSets, TLC

VARIABLES
    hasRenderer,        \* this.renderer is not null
    game,               \* main.js: the variable game holds a Game
    started,            \* this.started
    running,            \* this.running
    pendingLoops,       \* _loop callbacks handed to requestAnimationFrame
    pc,                 \* position of the running task
    accumulator,        \* this.accumulator
    clockDelta,         \* THREE.Clock: now - oldTime, what getDelta() returns
    health,             \* this.health
    money,              \* this.money
    unlocked,           \* this.unlocked, as the set of owned weapon ids
    currentWeaponIndex, \* this.currentWeaponIndex
    fireRate,           \* this.fireRate (tenths of shots per second; 0 unset)
    scopeFov,           \* this.scopeFov (degrees; 0 unset)
    shooting,           \* this.shooting
    timeSinceLastShot,  \* this.timeSinceLastShot
    pointerLocked,      \* this.pointerLocked
    move,               \* this.move.forward
    playerPos,          \* this.yawObject.position (x, z)
    facing,             \* camera direction along the x axis, 1 or -1
    targets,            \* this.targets
    enemies,            \* this.enemies
    respawnAge,         \* Date.now() - this.lastEnemyRespawn
    maxEnemies,         \* this.maxEnemies
    hittables,          \* _shoot: the hittable list built at its start
    pellet,             \* _shoot: the pellet index p
    retPc,              \* _shoot: where the caller continues
    aiIdx,              \* _updateEnemies: the loop index i, counted from 1
    respawnI,           \* _handleEnemyRespawn: the loop index i
    respawnCount,       \* _handleEnemyRespawn: respawnCount
    op,                 \* the last operation executed, with its outcome
    ticks,              \* history: the calls of _fixedUpdate so far
    pair,               \* two runs of the loop driver on frame deltas of their own
    targetPitch,        \* this.targetPitch, in 1/10000 rad
    smoothedPitch,      \* this.smoothedPitch = pitchObject.rotation.x
    lastShotTick,       \* history: ticks at the last call of _shoot, -1 when none
    frameSteps          \* history: the _fixedUpdate calls of the _loop call under way

vars == <<hasRenderer, game, started, running, pendingLoops, pc, accumulator,
          clockDelta, health, money, unlocked, currentWeaponIndex, fireRate,
          scopeFov,
          shooting, timeSinceLastShot, pointerLocked, move, playerPos, facing,
          targets, enemies, respawnAge, maxEnemies, hittables, pellet, retPc,
          aiIdx, respawnI, respawnCount, op, ticks, pair, targetPitch,
          smoothedPitch, lastShotTick, frameSteps>>

lifeVars == <<hasRenderer, game, started, running, pendingLoops>>
shopVars == <<money, unlocked, currentWeaponIndex, fireRate, scopeFov>>
fireVars == <<shooting, timeSinceLastShot, pointerLocked>>
poseVars == <<move, playerPos, facing>>
worldVars == <<targets, enemies, respawnAge, maxEnemies>>
shotVars == <<hittables, pellet, retPc>>
loopVars == <<aiIdx, respawnI, respawnCount>>
lookVars == <<targetPitch, smoothedPitch>>

Min(a, b) == IF a < b THEN a ELSE b
Max(a, b) == IF a > b THEN a ELSE b
Abs(a) == IF a < 0 THEN -a ELSE a

----------------------------------------------------------------------------
(* Program constants                                                       *)

FIXED_STEP == 14
MAX_FRAME_DT == 84
MAX_HEALTH == 100
START_MONEY == 50
TARGET_BOUNTY == 5
KILL_BOUNTY == 15
DAMAGE_SCALE == 10
ENEMY_HEALTH == 100
DETECTION_RANGE == 5000
ALERT_WINDOW == 4200
ENGAGE_RADIUS == 8750
MIN_SEPARATION == 250
SAME_SPOT == 25
HIT_RADIUS == 500
ENEMY_SHOT_RANGE == 10000
ENEMY_HALF_WIDTH == 50
TARGET_RADIUS == 125
PLAYER_Y == 400
ENEMY_Y == 125
GUN_Y == 275
PLAYER_STEP == 25
ENEMY_STEP == 10
BUILDING_HALF == 2000
BUILDING_PITCH == 5000
HUNT_FIRE_MIN == 750
HUNT_FIRE_MAX == 7500
FIGHT_FIRE_MIN == 500
FIGHT_FIRE_MAX == 6250
HUNT_DELAY_SPAN == 420
FIGHT_DELAY_SPAN == 840
GOAL_REACHED == 500
WORLD_LIMIT == 25000
DATE_NOW_MS == 1000000
SPAWN_CLEARANCE == 2000
ZONE_UNIT == 2500
RESPAWN_FLOOR == 12
RESPAWN_BATCH == 4
RESPAWN_INTERVAL == 12600
JITTER_HALF == 2500
PITCH_LIMIT == 15608
LOOK_SENSITIVITY == 25
SMOOTH_FACTOR == 1813

\* the fov of the camera the constructor makes
CAMERA_FOV == 75

\* this.weapons: fireRate in tenths of shots per second, spread in 1/10000 rad
weapons ==
    <<[id |-> "shotgun", fireRate |-> 12,  pellets |-> 9, spread |-> 1400,
       damage |-> 1,  automatic |-> FALSE, scopeFov |-> CAMERA_FOV],
      [id |-> "sniper",  fireRate |-> 6,   pellets |-> 1, spread |-> 0,
       damage |-> 10, automatic |-> FALSE, scopeFov |-> 12],
      [id |-> "smg",     fireRate |-> 140, pellets |-> 1, spread |-> 200,
       damage |-> 1,  automatic |-> TRUE, scopeFov |-> CAMERA_FOV]>>

WeaponIds == {weapons[i].id : i \in 1..Len(weapons)}

\* _setupUI: addBtn(id, label, cost)
ShopCost == [w \in WeaponIds |->
                CASE w = "smg" -> 120 [] w = "shotgun" -> 150 [] w = "sniper" -> 200]

\* 1 / this.fireRate, in time units (fireRate is in tenths of shots per second)
Interval(fr) == 8400 \div fr

----------------------------------------------------------------------------
(* Bounds of the model                                                     *)

MaxStall == 168
MaxChains == 2
MaxTicks == 2
MaxTotal == 170
MaxKills == 20
MaxCount == 12

----------------------------------------------------------------------------
(* Vector arithmetic of THREE.Vector3 on whole numbers                     *)

Pos(x, z) == [x |-> x, z |-> z]

RECURSIVE IsqrtIn(_, _, _)
IsqrtIn(n, lo, hi) ==
    IF lo >= hi THEN lo
    ELSE LET mid == (lo + hi + 1) \div 2
         IN  IF mid * mid <= n THEN IsqrtIn(n, mid, hi) ELSE IsqrtIn(n, lo, mid - 1)

\* floor of the square root, for 0 <= n < 2^30
Isqrt(n) == IsqrtIn(n, 0, 32767)

\* a / b rounded to the nearest whole number, b > 0
RoundDiv(a, b) == IF a >= 0 THEN (2 * a + b) \div (2 * b) ELSE -((2 * (-a) + b) \div (2 * b))

\* Vector3.distanceTo(a, b) < r, the points dy apart in height; the
\* coordinate tests come first so that no square leaves the machine word
DistLess(a, b, dy, r) ==
    /\ Abs(a.x - b.x) < r
    /\ Abs(a.z - b.z) < r
    /\ (a.x - b.x) * (a.x - b.x) + (a.z - b.z) * (a.z - b.z) + dy * dy < r * r

\* Vector3.distanceTo(a, b) > r
DistMore(a, b, dy, r) ==
    \/ Abs(a.x - b.x) > r
    \/ Abs(a.z - b.z) > r
    \/ (a.x - b.x) * (a.x - b.x) + (a.z - b.z) * (a.z - b.z) + dy * dy > r * r

\* the d of two candidates is compared only when both are below a radius
DistSq(a, b) == (a.x - b.x) * (a.x - b.x) + (a.z - b.z) * (a.z - b.z)

\* subVectors(to, from), y = 0, normalize(), multiplyScalar(len):
\* normalize() leaves the zero vector as it is
ScaledDir(from, to, len) ==
    LET dx == to.x - from.x
        dz == to.z - from.z
        m  == Max(Abs(dx), Abs(dz))
    IN  IF m = 0 THEN Pos(0, 0)
        ELSE LET k  == (m \div 8192) + 1
                 sx == RoundDiv(dx, k)
                 sz == RoundDiv(dz, k)
                 l  == Isqrt(sx * sx + sz * sz)
             IN  Pos(RoundDiv(sx * len, l), RoundDiv(sz * len, l))

Add(p, v) == Pos(p.x + v.x, p.z + v.z)

----------------------------------------------------------------------------
(* _canMoveTo                                                              *)

\* the 20 x 20 grid of building centres
GridCentres == {(i - 10) * BUILDING_PITCH : i \in 0..19}

InsideBuilding(p) ==
    /\ \E cx \in GridCentres : p.x > cx - BUILDING_HALF /\ p.x < cx + BUILDING_HALF
    /\ \E cz \in GridCentres : p.z > cz - BUILDING_HALF /\ p.z < cz + BUILDING_HALF

TooCloseToEnemy(es, currentPos, newPos) ==
    \E k \in 1..Len(es) :
        /\ es[k].alive
        /\ DistLess(newPos, es[k].pos, 0, MIN_SEPARATION)
        /\ DistMore(es[k].pos, currentPos, 0, SAME_SPOT)

CanMoveTo(es, currentPos, newPos) ==
    /\ ~InsideBuilding(newPos)
    /\ ~TooCloseToEnemy(es, currentPos, newPos)

----------------------------------------------------------------------------
(* Page load, the start button and the public start() / resume()          *)

\* what the last operation was and what it was given or has returned; the
\* two values are kept under the operation's name, as operations differ in
\* what they record
Op(n, a, b) == [name |-> n, a |-> [k \in {n} |-> a], b |-> [k \in {n} |-> b]]

Weapon == weapons[currentWeaponIndex + 1]

\* _setupControls has run: the key and mouse listeners are installed
controls == started /\ hasRenderer

\* constructor: one of the eight spawnPoints; the listed ones are two of them
SpawnPoints == {Pos(3750, 3750), Pos(8750, 0)}

\* one run of the loop driver: its accumulator, the fixed steps it made, the
\* frame time it was given, and whether a frame was cut to MAX_FRAME_DT
NoRun == [acc |-> 0, steps |-> 0, total |-> 0, frames |-> 0, clamped |-> FALSE]
NoRuns == [a |-> NoRun, b |-> NoRun]

InitPageLoad ==
    /\ hasRenderer \in BOOLEAN
    /\ game = FALSE /\ started = FALSE /\ running = FALSE
    /\ pendingLoops = 0 /\ pc = "idle" /\ accumulator = 0 /\ clockDelta = 0
    /\ health = MAX_HEALTH /\ money = START_MONEY /\ unlocked = {"smg"}
    /\ currentWeaponIndex = 2 /\ fireRate = 0 /\ scopeFov = 0
    /\ shooting = FALSE /\ timeSinceLastShot = 0 /\ pointerLocked = FALSE
    /\ move = 0 /\ playerPos \in SpawnPoints /\ facing = 1
    /\ targets = <<>> /\ enemies = <<>> /\ respawnAge = 0 /\ maxEnemies = 0
    /\ hittables = {} /\ pellet = 0 /\ retPc = "idle"
    /\ aiIdx = 0 /\ respawnI = 0 /\ respawnCount = 0
    /\ op = Op("load", 0, 0)
    /\ ticks = 0
    /\ pair = NoRuns
    /\ targetPitch = 0 /\ smoothedPitch = 0
    /\ lastShotTick = -1 /\ frameSteps = 0

\* _loop() entered with this.running true: dt = Math.min(0.1, getDelta())
NoClampDt(delta) == delta
LoopDt(delta) == Min(MAX_FRAME_DT, delta)

\* start(); sc holds what _spawnTargets and _spawnEnemies draw at random.
\* It sets every variable but game.
StartBody(sc) ==
    IF started
    THEN /\ op' = Op("start", "started", 0)
         /\ UNCHANGED <<lookVars, lastShotTick, frameSteps, pair, ticks, hasRenderer, started, running, pendingLoops, pc,
                        accumulator, clockDelta, health, shopVars, fireVars,
                        poseVars, worldVars, shotVars, loopVars>>
    ELSE /\ started' = TRUE
         /\ IF ~hasRenderer
            THEN /\ op' = Op("start", "no renderer", 0)
                 /\ UNCHANGED <<lookVars, lastShotTick, frameSteps, pair, ticks, hasRenderer, running, pendingLoops, pc,
                                accumulator, clockDelta, health, shopVars,
                                fireVars, poseVars, worldVars, shotVars, loopVars>>
            ELSE /\ fireRate' = Weapon.fireRate
                 /\ scopeFov' = (IF Weapon.scopeFov # 0 THEN Weapon.scopeFov ELSE CAMERA_FOV)
                 /\ targets' = sc.targets
                 /\ enemies' = sc.enemies
                 /\ respawnAge' = 0
                 /\ maxEnemies' = Len(sc.enemies) * 2
                 /\ running' = TRUE
                 /\ clockDelta' = 0
                 /\ accumulator' = accumulator + LoopDt(0)
                 /\ pc' = "drain"
                 /\ targetPitch' = 0 /\ smoothedPitch' = 0
                 /\ frameSteps' = 0
                 /\ op' = Op("start", "running", 0)
                 /\ UNCHANGED <<lastShotTick, pair, ticks, hasRenderer, pendingLoops, health, money,
                                unlocked, currentWeaponIndex, fireVars,
                                poseVars, shotVars, loopVars>>

\* resume(). It sets every variable but game.
ResumeBody(sc) ==
    IF ~started THEN StartBody(sc)
    ELSE IF running
    THEN /\ op' = Op("resume", "running", 0)
         /\ UNCHANGED <<lookVars, lastShotTick, frameSteps, pair, ticks, hasRenderer, started, running, pendingLoops, pc,
                        accumulator, clockDelta, health, shopVars, fireVars,
                        poseVars, worldVars, shotVars, loopVars>>
    ELSE /\ pendingLoops < MaxChains
         /\ running' = TRUE
         /\ clockDelta' = 0
         /\ accumulator' = accumulator + LoopDt(0)
         /\ pc' = "drain"
         /\ frameSteps' = 0
         /\ op' = Op("resume", "resumed", 0)
         /\ UNCHANGED <<lookVars, lastShotTick, pair, ticks, hasRenderer, started, pendingLoops, health, shopVars,
                        fireVars, poseVars, worldVars, shotVars, loopVars>>

\* main.js: the click handler of startBtn
ClickStart(sc) ==
    /\ pc = "idle"
    /\ IF ~game
       THEN game' = TRUE /\ StartBody(sc)
       ELSE UNCHANGED game /\ ResumeBody(sc)

\* start() called again on the game main.js exposes
CallStart(sc) ==
    /\ pc = "idle" /\ game
    /\ UNCHANGED game
    /\ StartBody(sc)

\* resume() called on the game main.js exposes
CallResume(sc) ==
    /\ pc = "idle" /\ game
    /\ UNCHANGED game
    /\ ResumeBody(sc)

----------------------------------------------------------------------------
(* The wall clock                                                          *)

\* the longest interval of the fireRates table of _enemyShoot, in time units
LongestInterval == 1680

\* Date.now() - lastDamageTime after d more units; -1 is "never damaged".
\* The code only asks whether the difference is below ALERT_WINDOW.
AgeAfter(age, d, cap) == IF age = -1 THEN -1 ELSE Min(age + d, cap)

\* d units of wall-clock time pass between two tasks, once for every time
\* the clock is read
Elapse(d) ==
    /\ pc = "idle"
    /\ clockDelta = 0
    /\ clockDelta' = Min(clockDelta + d, MaxStall)
    /\ respawnAge' = Min(respawnAge + d, RESPAWN_INTERVAL + 1)
    /\ enemies' = [k \in 1..Len(enemies) |->
                     [enemies[k] EXCEPT !.damageAge = AgeAfter(@, d, ALERT_WINDOW),
                                        !.shotAge = AgeAfter(@, d, LongestInterval)]]
    /\ op' = Op("time", d, 0)
    /\ UNCHANGED <<lookVars, lastShotTick, frameSteps, pair, ticks, lifeVars, pc, accumulator, health, shopVars, fireVars,
                   poseVars, targets, maxEnemies, shotVars, loopVars>>

\* the clock of a game that is followed for MaxTicks fixed steps
PassTime(d) ==
    /\ ticks < MaxTicks
    /\ Elapse(d)

----------------------------------------------------------------------------
(* _loop                                                                   *)

\* a requestAnimationFrame callback runs _loop
AnimationFrame ==
    /\ pc = "idle"
    /\ pendingLoops > 0
    /\ pendingLoops' = pendingLoops - 1
    /\ frameSteps' = 0
    /\ IF ~running
       THEN /\ op' = Op("loop", "returned", 0)
            /\ UNCHANGED <<pc, accumulator, clockDelta>>
       ELSE /\ accumulator' = accumulator + LoopDt(clockDelta)
            /\ clockDelta' = 0
            /\ pc' = "drain"
            /\ op' = Op("loop", "entered", clockDelta)
    /\ UNCHANGED <<lookVars, lastShotTick, pair, ticks, hasRenderer, game, started, running, health, shopVars,
                   fireVars, poseVars, worldVars, shotVars, loopVars>>

\* smoothedPitch += (targetPitch - smoothedPitch) * smoothFactor, where
\* smoothFactor = 1 - Math.exp(-smoothSpeed * dt) with smoothSpeed * dt = 0.2
Smoothed(s, t) == s + RoundDiv((t - s) * SMOOTH_FACTOR, 10000)

\* this.accumulator -= FIXED_STEP
AccAfterStepReset(acc) == 0
AccAfterStep(acc) == acc - FIXED_STEP

\* while (this.accumulator >= FIXED_STEP): the loop goes on
DrainGoesOn(acc) == acc >= FIXED_STEP

\* what follows the player's movement in _fixedUpdate: the autoshoot loop
\* when this.shooting, else the enemies' update
SkipToRespawn(sh) == "respawn"
AfterMove(sh) == IF sh THEN "auto" ELSE "ai"

\* _fixedUpdate, from its start to the autoshoot handling: the player moves,
\* then the shot timer advances
FixedUpdateBegin ==
    /\ pc = "drain"
    /\ DrainGoesOn(accumulator)
    /\ smoothedPitch' = Smoothed(smoothedPitch, targetPitch)
    /\ frameSteps' = frameSteps + 1
    /\ playerPos' = Pos(playerPos.x + move * facing * PLAYER_STEP, playerPos.z)
    /\ IF shooting
       THEN /\ timeSinceLastShot' = timeSinceLastShot + FIXED_STEP
            /\ UNCHANGED aiIdx
       ELSE /\ timeSinceLastShot' =
                   Min(timeSinceLastShot + FIXED_STEP, Interval(fireRate))
            /\ aiIdx' = Len(enemies)
    /\ pc' = AfterMove(shooting)
    /\ ticks' = Min(ticks + 1, MaxCount)
    /\ op' = Op("fixedUpdate", health, 0)
    /\ UNCHANGED <<targetPitch, lastShotTick, pair, lifeVars, accumulator, clockDelta, health, shopVars,
                   shooting, pointerLocked, move, facing, worldVars, shotVars,
                   respawnI, respawnCount>>

\* _render, then requestAnimationFrame; without a renderer _render throws
\* and the callback is never requested
Render ==
    /\ pc = "drain"
    /\ ~DrainGoesOn(accumulator)
    /\ pc' = "idle"
    /\ IF hasRenderer
       THEN pendingLoops' = pendingLoops + 1 /\ op' = Op("render", "drawn", 0)
       ELSE UNCHANGED pendingLoops /\ op' = Op("render", "threw", 0)
    /\ UNCHANGED <<lookVars, lastShotTick, frameSteps, pair, ticks, hasRenderer, game, started, running, accumulator, clockDelta,
                   health, shopVars, fireVars, poseVars, worldVars, shotVars,
                   loopVars>>

----------------------------------------------------------------------------
(* Keys and the shop                                                       *)

\* onKey KeyW / KeyS, down and up
KeyMove(code, down) ==
    /\ pc = "idle" /\ controls
    /\ move' = IF code = "KeyW"
               THEN (IF down THEN 1 ELSE IF move = 1 THEN 0 ELSE move)
               ELSE (IF down THEN -1 ELSE IF move = -1 THEN 0 ELSE move)
    /\ op' = Op("key", code, down)
    /\ UNCHANGED <<lookVars, lastShotTick, frameSteps, pair, ticks, lifeVars, pc, accumulator, clockDelta, health, shopVars,
                   fireVars, playerPos, facing, worldVars, shotVars, loopVars>>

\* Math.max(-limit, Math.min(limit, targetPitch)), limit = Math.PI / 2 - 0.01
NoClampPitch(p) == p
ClampPitch(p) == Max(-PITCH_LIMIT, Min(PITCH_LIMIT, p))

\* onPointerMove, the pointer locked: a movementX other than 0 turns the
\* camera to the other direction of the axis, movementY (pixels) moves the
\* target pitch, which is then clamped
Look(movementX, movementY) ==
    /\ pc = "idle" /\ controls /\ pointerLocked
    /\ facing' = IF movementX # 0 THEN -facing ELSE facing
    /\ targetPitch' = ClampPitch(targetPitch - movementY * LOOK_SENSITIVITY)
    /\ op' = Op("look", movementX, movementY)
    /\ UNCHANGED <<smoothedPitch, lastShotTick, frameSteps, pair, ticks, lifeVars, pc, accumulator, clockDelta, health, shopVars,
                   fireVars, move, playerPos, worldVars, shotVars, loopVars>>

\* the pointerlockchange listener
PointerLockChange(locked) ==
    /\ pc = "idle" /\ controls
    /\ pointerLocked' = locked
    /\ op' = Op("pointerlock", locked, 0)
    /\ UNCHANGED <<lookVars, lastShotTick, frameSteps, pair, ticks, lifeVars, pc, accumulator, clockDelta, health, shopVars,
                   shooting, timeSinceLastShot, poseVars, worldVars, shotVars,
                   loopVars>>

\* onKey Digit1 / Digit2 / Digit3, down: i is the weapon's index
KeyDigit(i) ==
    /\ pc = "idle" /\ controls
    /\ IF weapons[i + 1].id \in unlocked
       THEN /\ currentWeaponIndex' = i
            /\ fireRate' = weapons[i + 1].fireRate
            /\ scopeFov' = weapons[i + 1].scopeFov
       ELSE UNCHANGED <<currentWeaponIndex, fireRate, scopeFov>>
    /\ op' = Op("digit", i, weapons[i + 1].id \in unlocked)
    /\ UNCHANGED <<lookVars, lastShotTick, frameSteps, pair, ticks, lifeVars, pc, accumulator, clockDelta, health, money,
                   unlocked, fireVars, poseVars, worldVars, shotVars, loopVars>>

\* _buyWeapon: the purchase goes through
AlwaysAffordable(cost) == TRUE
CanAfford(cost) == ~(money < cost)

FirstIndex(id) == 0
IndexOf(id) == CHOOSE i \in 0..(Len(weapons) - 1) : weapons[i + 1].id = id

\* what _buyWeapon returns: no path of it returns a value
BuyResult(applied) == "undefined"

\* _buyWeapon(id, cost); the b of op records the money before the call
BuyWeapon(id, cost) ==
    /\ pc = "idle" /\ controls
    /\ IF id \in unlocked
       THEN /\ op' = Op("buy", [id |-> id, cost |-> cost, owned |-> TRUE,
                                money |-> money, applied |-> FALSE,
                                result |-> BuyResult(FALSE)], 0)
            /\ UNCHANGED shopVars
       ELSE IF ~CanAfford(cost)
       THEN /\ op' = Op("buy", [id |-> id, cost |-> cost, owned |-> FALSE,
                                money |-> money, applied |-> FALSE,
                                result |-> BuyResult(FALSE)], 0)
            /\ UNCHANGED shopVars
       ELSE /\ money' = money - cost
            /\ unlocked' = unlocked \cup {id}
            /\ currentWeaponIndex' = IndexOf(id)
            /\ fireRate' = weapons[IndexOf(id) + 1].fireRate
            /\ scopeFov' = weapons[IndexOf(id) + 1].scopeFov
            /\ op' = Op("buy", [id |-> id, cost |-> cost, owned |-> FALSE,
                                money |-> money, applied |-> TRUE,
                                result |-> BuyResult(TRUE)], 0)
    /\ UNCHANGED <<lookVars, lastShotTick, frameSteps, pair, ticks, lifeVars, pc, accumulator, clockDelta, health, fireVars,
                   poseVars, worldVars, shotVars, loopVars>>

----------------------------------------------------------------------------
(* Enemies and targets                                                     *)

\* _createEnemy(x, y, z): team, weaponType and shootCooldown are drawn at
\* random; speed is the length of one full-speed step
NewEnemy(id, pos, team, weaponType, cooldown) ==
    [id |-> id, pos |-> pos, health |-> ENEMY_HEALTH, alive |-> TRUE,
     speed |-> ENEMY_STEP, weaponType |-> weaponType, lastShot |-> 0,
     shootCooldown |-> cooldown, detectionRange |-> DETECTION_RANGE,
     team |-> team, state |-> "none", damageAge |-> -1, shotAge |-> -1,
     currentGoal |-> <<>>, lookAt |-> <<>>]

\* _spawnTargets: { mesh, alive: true }
NewTarget(pos) == [pos |-> pos, alive |-> TRUE]

\* this.enemies.splice(i, 1)
KeepDead(es, i) == [es EXCEPT ![i].alive = FALSE]
Splice(es, i) == [k \in 1..(Len(es) - 1) |-> IF k < i THEN es[k] ELSE es[k + 1]]

Ids(es) == {es[k].id : k \in 1..Len(es)}

----------------------------------------------------------------------------
(* _shoot                                                                  *)

\* _spawnTargets and the room targets of _setupWorld never set
\* mesh.userData.hittable
TargetMeshHittable == FALSE

\* the hittable list: the flagged meshes of the scene, then every live
\* enemy with its parts
BuildHittables ==
    {[kind |-> "target", id |-> k, pos |-> targets[k].pos] :
        k \in {j \in 1..Len(targets) : targets[j].alive /\ TargetMeshHittable}}
    \cup
    {[kind |-> "enemy", id |-> enemies[k].id, pos |-> enemies[k].pos] :
        k \in {j \in 1..Len(enemies) : enemies[j].alive}}

Radius(o) == IF o.kind = "target" THEN TARGET_RADIUS ELSE ENEMY_HALF_WIDTH

\* distance from the camera along the camera direction
Ahead(o) == (o.pos.x - playerPos.x) * facing

\* the ray of a pellet turned by angle (1/10000 rad) off the camera
\* direction passes through object o
OnRay(o, angle) ==
    /\ Ahead(o) > 0
    /\ Abs(o.pos.z - playerPos.z) <= Radius(o)
    /\ Ahead(o) * angle <= Radius(o) * 10000

\* ray.intersectObjects(hittables, true): only the listed objects are tested
Intersects(angle) == {o \in hittables : OnRay(o, angle)}

\* intersects[0]: a nearest one
Nearest(objs) == {o \in objs : \A q \in objs : Ahead(o) <= Ahead(q)}

\* (Math.random() - 0.5) * weapon.spread, applied only above 0.0001 rad
AlwaysSpread(w) == {0, 100}
PelletAngles(w) == IF w.spread > 1 THEN {0, w.spread \div 2} ELSE {0}

\* the first part of _shoot, up to the pellet loop
ShootBegin(caller) ==
    /\ hittables' = BuildHittables
    /\ pellet' = 0
    /\ retPc' = caller
    /\ pc' = "pellet"
    /\ lastShotTick' = ticks

\* the mousedown listener, button 0
MouseDown ==
    /\ pc = "idle" /\ controls
    /\ IF ~pointerLocked
       THEN /\ op' = Op("mousedown", "ignored", 0)
            /\ UNCHANGED <<pc, shooting, timeSinceLastShot, shotVars, lastShotTick>>
       ELSE /\ shooting' = TRUE
            /\ timeSinceLastShot' = Interval(fireRate)
            /\ ShootBegin("idle")
            /\ op' = Op("mousedown", "shoot", 0)
    /\ UNCHANGED <<lookVars, frameSteps, pair, ticks, lifeVars, accumulator, clockDelta, health, shopVars,
                   pointerLocked, poseVars, worldVars, loopVars>>

\* the mouseup listener, button 0
MouseUp ==
    /\ pc = "idle" /\ controls
    /\ shooting' = FALSE
    /\ op' = Op("mouseup", 0, 0)
    /\ UNCHANGED <<lookVars, lastShotTick, frameSteps, pair, ticks, lifeVars, pc, accumulator, clockDelta, health, shopVars,
                   timeSinceLastShot, pointerLocked, poseVars, worldVars,
                   shotVars, loopVars>>

\* _fixedUpdate: while (this.timeSinceLastShot >= interval) this._shoot()
AutoShoot ==
    /\ pc = "auto"
    /\ timeSinceLastShot >= Interval(fireRate)
    /\ ShootBegin("auto")
    /\ op' = Op("autoshoot", 0, 0)
    /\ UNCHANGED <<lookVars, frameSteps, pair, ticks, lifeVars, accumulator, clockDelta, health, shopVars,
                   fireVars, poseVars, worldVars, loopVars>>

AutoDone ==
    /\ pc = "auto"
    /\ timeSinceLastShot < Interval(fireRate)
    /\ pc' = "ai"
    /\ aiIdx' = Len(enemies)
    /\ op' = Op("autodone", 0, 0)
    /\ UNCHANGED <<lookVars, lastShotTick, frameSteps, pair, ticks, lifeVars, accumulator, clockDelta, health, shopVars,
                   fireVars, poseVars, worldVars, shotVars, respawnI,
                   respawnCount>>

\* the index of the live enemy the hit object belongs to, 0 when none;
\* a body that left this.enemies matches nothing
EnemyIndexOf(es, o) ==
    IF o.kind = "enemy" /\ \E k \in 1..Len(es) : es[k].alive /\ es[k].id = o.id
    THEN CHOOSE k \in 1..Len(es) : es[k].alive /\ es[k].id = o.id
    ELSE 0

\* the enemy branch of one pellet: damage, then death or the alert stamp
DamagedByPlayer(es, i, damage) ==
    LET hit == [es EXCEPT ![i].health = @ - damage, ![i].damageAge = 0]
    IN  IF hit[i].health <= 0 THEN Splice(hit, i) ELSE hit

\* one iteration of the pellet loop; the a of op records what the ray hit and the
\* angle between the ray and the camera direction
PelletStep(angle) ==
    /\ pc = "pellet"
    /\ pellet < Weapon.pellets
    /\ pellet' = pellet + 1
    /\ IF Intersects(angle) = {}
       THEN /\ op' = Op("pellet", [kind |-> "none", angle |-> angle], 0)
            /\ UNCHANGED <<targets, enemies, money>>
       ELSE \E o \in Nearest(Intersects(angle)) :
              LET i == EnemyIndexOf(enemies, o)
                  tHit == o.kind = "target" /\ targets[o.id].alive
                  killed == i # 0 /\ enemies[i].health - Weapon.damage * DAMAGE_SCALE <= 0
              IN  /\ targets' = IF tHit THEN [targets EXCEPT ![o.id].alive = FALSE]
                                ELSE targets
                  /\ enemies' = IF i # 0
                                THEN DamagedByPlayer(enemies, i, Weapon.damage * DAMAGE_SCALE)
                                ELSE enemies
                  /\ money' = money + (IF tHit THEN TARGET_BOUNTY ELSE 0)
                                    + (IF killed THEN KILL_BOUNTY ELSE 0)
                  /\ op' = Op("pellet", [kind |-> o.kind, id |-> o.id, pos |-> o.pos,
                                          angle |-> angle], i)
    /\ UNCHANGED <<lookVars, lastShotTick, frameSteps, pair, ticks, lifeVars, pc, accumulator, clockDelta, health, unlocked,
                   currentWeaponIndex, fireRate, scopeFov, fireVars, poseVars, respawnAge,
                   maxEnemies, hittables, retPc, loopVars>>

\* the end of _shoot; the autoshoot loop then subtracts the interval
ShootEnd ==
    /\ pc = "pellet"
    /\ pellet >= Weapon.pellets
    /\ pc' = retPc
    /\ timeSinceLastShot' = IF retPc = "auto"
                            THEN timeSinceLastShot - Interval(fireRate)
                            ELSE timeSinceLastShot
    /\ op' = Op("shot", retPc, 0)
    /\ UNCHANGED <<lookVars, lastShotTick, frameSteps, pair, ticks, lifeVars, accumulator, clockDelta, health, shopVars,
                   shooting, pointerLocked, poseVars, worldVars, shotVars,
                   loopVars>>

----------------------------------------------------------------------------
(* _enemyShoot                                                             *)

\* fireRates, in milliseconds
EnemyFireRateMs(w) ==
    CASE w = "rifle" -> 600 [] w = "smg" -> 300 [] w = "shotgun" -> 1200
      [] w = "sniper" -> 2000 [] OTHER -> 600

\* currentTime - enemy.userData.lastShot < fireRate.  currentTime is
\* Date.now(), milliseconds since 1970 (DATE_NOW_MS is below every value it
\* takes); lastShot is what _updateEnemies accumulated, in seconds:
\* both sides are multiplied by 840 here
FireGateBlocks(lastShot, w) == 840 * DATE_NOW_MS - lastShot < 840 * EnemyFireRateMs(w)

\* the interval of the fireRates table in time units (1 ms is 0.84 units)
EnemyFireInterval(w) == (84 * EnemyFireRateMs(w)) \div 100

\* _getWeaponDamage: the least and the greatest whole damage of each class
WeaponDamage(w, pick) ==
    CASE w = "rifle"   -> (IF pick = "lo" THEN 8  ELSE 13)
      [] w = "smg"     -> (IF pick = "lo" THEN 4  ELSE 7)
      [] w = "shotgun" -> (IF pick = "lo" THEN 15 ELSE 24)
      [] w = "sniper"  -> (IF pick = "lo" THEN 20 ELSE 34)
      [] OTHER         -> (IF pick = "lo" THEN 5  ELSE 9)

\* startPos: the enemy's position moved by (0.2, 0.6, -0.2)
GunPos(e) == Pos(e.pos.x + 50, e.pos.z - 50)

\* the first live enemy less than 2 away from the target point, 0 when none
HitEnemyIndex(es, targetPos, targetY) ==
    LET near == {k \in 1..Len(es) :
                    es[k].alive /\ DistLess(es[k].pos, targetPos, targetY - ENEMY_Y, HIT_RADIUS)}
    IN  IF near = {} THEN 0 ELSE CHOOSE k \in near : \A j \in near : k <= j

\* the enemy-versus-enemy branch: damage, then death and removal
DamagedOnly(es, k, damage) == [es EXCEPT ![k].health = @ - damage]
DamagedByEnemy(es, k, damage) ==
    LET hit == [es EXCEPT ![k].health = @ - damage]
    IN  IF hit[k].health <= 0 THEN Splice(hit, k) ELSE hit

\* _damagePlayer: the health left
Unclamped(h, damage) == h - damage
HealthAfter(h, damage) == Max(0, h - damage)

\* _enemyShoot(enemy, targetPos) for the enemy at index i: the enemies, the
\* player's health and this.running it leaves.  roll is Math.random() <
\* accuracy (the accuracy is always strictly between 0 and 1)
EnemyShoot(es, i, targetPos, targetY, roll, pick) ==
    LET e == es[i]
        damage == WeaponDamage(e.weaponType, pick)
        inRange == DistLess(GunPos(e), targetPos, targetY - GUN_Y, ENEMY_SHOT_RANGE)
        k == HitEnemyIndex(es, targetPos, targetY)
        same == [es |-> es, health |-> health, running |-> running,
                 hit |-> "none", hitId |-> 0]
        \* enemy.userData.lastShot = currentTime: the shot is fired now
        \* (shotAge is the wall-clock time since then; lastShot itself is
        \* set to 0 by the caller)
        fired == [es EXCEPT ![i].shotAge = 0]
    IN  IF FireGateBlocks(e.lastShot, e.weaponType) THEN [same EXCEPT !.hit = "gate"]
        ELSE IF ~(roll /\ inRange) THEN [same EXCEPT !.es = fired, !.hit = "miss"]
        ELSE IF k # 0
        THEN [same EXCEPT !.es = DamagedByEnemy(fired, k, damage), !.hit = "enemy",
                          !.hitId = es[k].id]
        ELSE [es |-> fired, health |-> HealthAfter(health, damage),
              running |-> IF HealthAfter(health, damage) <= 0 THEN FALSE ELSE running,
              hit |-> "player", hitId |-> 0]

\* enemy.userData.lastShot = 0 after _enemyShoot returned: the shooter may
\* have left this.enemies
ResetLastShot(es, id) ==
    [k \in 1..Len(es) |-> IF es[k].id = id THEN [es[k] EXCEPT !.lastShot = 0] ELSE es[k]]

----------------------------------------------------------------------------
(* _updateEnemies                                                          *)

\* isUnderAttack: lastDamageTime && (Date.now() - lastDamageTime) < 5000
NeverUnderAttack(e) == FALSE
IsUnderAttack(e) == e.damageAge # -1 /\ e.damageAge < ALERT_WINDOW

\* extendedRange
WideRange(e) == e.detectionRange * 2
ExtendedRange(e) == IF IsUnderAttack(e) THEN e.detectionRange * 2 ELSE e.detectionRange

\* distToPlayer < extendedRange || isUnderAttack
NeverHunts(e) == FALSE
Hunts(e) ==
    \/ DistLess(e.pos, playerPos, PLAYER_Y - ENEMY_Y, ExtendedRange(e))
    \/ IsUnderAttack(e)

\* the rivals of enemies[i]: live, of another team, less than 35 away
Rivals(es, i) ==
    {k \in 1..Len(es) :
        /\ k # i /\ es[k].alive /\ es[k].team # es[i].team
        /\ DistLess(es[i].pos, es[k].pos, 0, ENGAGE_RADIUS)}

\* targetEnemy: the nearest rival, the first of them in this.enemies
FirstRival(es, i) ==
    LET r == Rivals(es, i)
    IN  IF r = {} THEN 0 ELSE CHOOSE k \in r : \A j \in r : k <= j
TargetEnemy(es, i) ==
    LET r == Rivals(es, i)
        best == {k \in r : \A j \in r : DistSq(es[i].pos, es[k].pos) <= DistSq(es[i].pos, es[j].pos)}
    IN  IF r = {} THEN 0 ELSE CHOOSE k \in best : \A j \in best : k <= j

\* lastShot >= shootCooldown + Math.random() * span can hold / can fail
MayFire(e, span) == e.lastShot >= e.shootCooldown
MustFire(e, span) == e.lastShot >= e.shootCooldown + span

\* the position after one step of length len towards point to, when
\* _canMoveTo allows it; the hunting branch then tries the step to the side
StepTowards(es, e, to, len, sidestep) ==
    LET v == ScaledDir(e.pos, to, len)
        cand == Add(e.pos, v)
        side == Add(e.pos, Pos(-v.z, v.x))
    IN  IF CanMoveTo(es, e.pos, cand) THEN cand
        ELSE IF sidestep /\ CanMoveTo(es, e.pos, side) THEN side
        ELSE e.pos

Clamp(v, lo, hi) == Max(lo, Min(hi, v))

\* one iteration of the loop of _updateEnemies, for the enemy at aiIdx.
\* fire: the random shot delay has run out; roll, pick: what _enemyShoot
\* draws; repick, goal: the new wander goal and whether one is drawn
UpdateEnemy(fire, roll, pick, repick, goal) ==
    /\ pc = "ai"
    /\ aiIdx >= 1
    /\ aiIdx' = aiIdx - 1
    /\ LET e == enemies[aiIdx]
           t == TargetEnemy(enemies, aiIdx)
       IN
       IF ~e.alive
       THEN /\ op' = Op("ai", [id |-> e.id, state |-> "dead", hit |-> "none"], 0)
            /\ UNCHANGED <<enemies, health, running>>
       ELSE IF Hunts(e)
       THEN LET moved == [e EXCEPT !.state = "hunting_player",
                                   !.pos = StepTowards(enemies, e, playerPos, e.speed, TRUE),
                                   !.lookAt = <<playerPos>>,
                                   !.lastShot = @ + FIXED_STEP]
                es1 == [enemies EXCEPT ![aiIdx] = moved]
                shoots == /\ IF fire THEN MayFire(moved, HUNT_DELAY_SPAN)
                                     ELSE MustFire(moved, HUNT_DELAY_SPAN)
                          /\ DistMore(e.pos, playerPos, PLAYER_Y - ENEMY_Y, HUNT_FIRE_MIN)
                          /\ DistLess(e.pos, playerPos, PLAYER_Y - ENEMY_Y, HUNT_FIRE_MAX)
                r == EnemyShoot(es1, aiIdx, playerPos, PLAYER_Y, roll, pick)
            IN  IF shoots
                THEN /\ enemies' = ResetLastShot(r.es, e.id)
                     /\ health' = r.health
                     /\ running' = r.running
                     /\ op' = Op("ai", [id |-> e.id, state |-> "hunting_player",
                                        hit |-> r.hit], r.hitId)
                ELSE /\ enemies' = es1
                     /\ op' = Op("ai", [id |-> e.id, state |-> "hunting_player",
                                        hit |-> "none"], 0)
                     /\ UNCHANGED <<health, running>>
       ELSE IF t # 0
       THEN LET moved == [e EXCEPT !.state = "fighting_enemy",
                                   !.pos = StepTowards(enemies, e, enemies[t].pos,
                                                       (e.speed * 8) \div 10, FALSE),
                                   !.lookAt = <<enemies[t].pos>>,
                                   !.lastShot = @ + FIXED_STEP]
                es1 == [enemies EXCEPT ![aiIdx] = moved]
                shoots == /\ IF fire THEN MayFire(moved, FIGHT_DELAY_SPAN)
                                     ELSE MustFire(moved, FIGHT_DELAY_SPAN)
                          /\ DistMore(e.pos, enemies[t].pos, 0, FIGHT_FIRE_MIN)
                          /\ DistLess(e.pos, enemies[t].pos, 0, FIGHT_FIRE_MAX)
                r == EnemyShoot(es1, aiIdx, enemies[t].pos, ENEMY_Y, roll, pick)
            IN  IF shoots
                THEN /\ enemies' = ResetLastShot(r.es, e.id)
                     /\ health' = r.health
                     /\ running' = r.running
                     /\ op' = Op("ai", [id |-> e.id, state |-> "fighting_enemy",
                                        hit |-> r.hit], r.hitId)
                ELSE /\ enemies' = es1
                     /\ op' = Op("ai", [id |-> e.id, state |-> "fighting_enemy",
                                        hit |-> "none"], 0)
                     /\ UNCHANGED <<health, running>>
       ELSE LET g == IF e.currentGoal = <<>> \/ repick
                     THEN Pos(Clamp(e.pos.x + goal.x, -WORLD_LIMIT, WORLD_LIMIT),
                              Clamp(e.pos.z + goal.z, -WORLD_LIMIT, WORLD_LIMIT))
                     ELSE e.currentGoal[1]
                to == StepTowards(enemies, e, g, (e.speed * 7) \div 10, FALSE)
                far == DistMore(e.pos, g, 0, GOAL_REACHED)
                ok == far /\ CanMoveTo(enemies, e.pos,
                                       Add(e.pos, ScaledDir(e.pos, g, (e.speed * 7) \div 10)))
                roamed == [e EXCEPT !.state = "free_roaming",
                                    !.pos = IF ok THEN to ELSE @,
                                    !.lookAt = IF ok THEN <<g>> ELSE @,
                                    !.currentGoal = IF ok THEN <<g>> ELSE <<>>]
            IN  /\ enemies' = [enemies EXCEPT ![aiIdx] = roamed]
                /\ op' = Op("ai", [id |-> e.id, state |-> "free_roaming",
                                   hit |-> "none"], 0)
                /\ UNCHANGED <<health, running>>
    /\ UNCHANGED <<lookVars, lastShotTick, frameSteps, pair, ticks, hasRenderer, game, started, pendingLoops, pc, accumulator,
                   clockDelta, shopVars, fireVars, poseVars, targets, respawnAge,
                   maxEnemies, shotVars, respawnI, respawnCount>>

----------------------------------------------------------------------------
(* _handleEnemyRespawn                                                     *)

\* spawnZones, in ZONE_UNITs (10 world units)
spawnZones ==
    <<Pos(7, 7), Pos(-7, 7), Pos(7, -7), Pos(-7, -7),
      Pos(9, 0), Pos(-9, 0), Pos(0, 9),  Pos(0, -9),
      Pos(6, 4), Pos(-6, 4), Pos(6, -4), Pos(-6, -4)>>

\* the squared distance of a zone to the player, less the player's own
\* term and divided by ZONE_UNIT: it orders the zones as the distance does
ZoneKey(zn) ==
    ZONE_UNIT * (zn.x * zn.x + zn.z * zn.z) - 2 * playerPos.x * zn.x - 2 * playerPos.z * zn.z

\* spawnZones.sort(distB - distA): the number of zones that come before
\* zone k, the sort being stable
ZoneRank(k) ==
    Cardinality({j \in 1..Len(spawnZones) :
        \/ ZoneKey(spawnZones[j]) > ZoneKey(spawnZones[k])
        \/ ZoneKey(spawnZones[j]) = ZoneKey(spawnZones[k]) /\ j < k})

\* spawnZones[i % spawnZones.length] after the sort
ZoneAt(i) ==
    LET k == CHOOSE j \in 1..Len(spawnZones) : ZoneRank(j) = i % Len(spawnZones)
    IN  Pos(spawnZones[k].x * ZONE_UNIT, spawnZones[k].z * ZONE_UNIT)

\* _isValidSpawnPosition(x, z)
IsValidSpawnPosition(p) ==
    ~\E cx \in GridCentres :
        /\ Abs(p.x - cx) < SPAWN_CLEARANCE
        /\ \E cz \in GridCentres : DistLess(p, Pos(cx, cz), 0, SPAWN_CLEARANCE)

AliveEnemies == Cardinality({k \in 1..Len(enemies) : enemies[k].alive})

\* the respawn condition
RespawnDue ==
    /\ AliveEnemies < maxEnemies
    /\ (AliveEnemies < RESPAWN_FLOOR \/ respawnAge > RESPAWN_INTERVAL)

\* respawnCount = Math.min(4, this.maxEnemies - aliveEnemies)
RespawnBatchOnly == RESPAWN_BATCH
RespawnCount == Min(RESPAWN_BATCH, maxEnemies - AliveEnemies)

FreshId == CHOOSE n \in 1..(Len(enemies) + 1) : n \notin Ids(enemies)

\* _updateEnemies is through; _handleEnemyRespawn starts, or finds nothing
\* to do and _fixedUpdate returns
RespawnBegin ==
    /\ pc = "ai"
    /\ aiIdx = 0
    /\ IF RespawnDue
       THEN /\ respawnCount' = RespawnCount
            /\ respawnI' = 0
            /\ pc' = "respawn"
            /\ op' = Op("respawn", "due", 0)
            /\ UNCHANGED accumulator
       ELSE /\ accumulator' = AccAfterStep(accumulator)
            /\ pc' = "drain"
            /\ op' = Op("respawn", "idle", 0)
            /\ UNCHANGED <<respawnCount, respawnI>>
    /\ UNCHANGED <<lookVars, lastShotTick, frameSteps, pair, ticks, lifeVars, clockDelta, health, shopVars, fireVars, poseVars,
                   worldVars, shotVars, aiIdx>>

\* one iteration of the respawn loop; jitter, team, weaponType and cooldown
\* are what it and _createEnemy draw at random
RespawnOne(jitter, team, weaponType, cooldown) ==
    /\ pc = "respawn"
    /\ respawnI < respawnCount
    /\ respawnI' = respawnI + 1
    /\ LET p == Add(ZoneAt(respawnI), jitter)
       IN  IF IsValidSpawnPosition(p)
           THEN /\ enemies' = Append(enemies, NewEnemy(FreshId, p, team, weaponType, cooldown))
                /\ op' = Op("spawn", p, respawnI)
           ELSE /\ op' = Op("nospawn", p, respawnI)
                /\ UNCHANGED enemies
    /\ UNCHANGED <<lookVars, lastShotTick, frameSteps, pair, ticks, lifeVars, pc, accumulator, clockDelta, health, shopVars,
                   fireVars, poseVars, targets, respawnAge, maxEnemies, shotVars,
                   aiIdx, respawnCount>>

\* this.lastEnemyRespawn = currentTime; _fixedUpdate returns
RespawnEnd ==
    /\ pc = "respawn"
    /\ respawnI >= respawnCount
    /\ respawnAge' = 0
    /\ accumulator' = AccAfterStep(accumulator)
    /\ pc' = "drain"
    /\ op' = Op("respawn", "done", 0)
    /\ UNCHANGED <<lookVars, lastShotTick, frameSteps, pair, ticks, lifeVars, clockDelta, health, shopVars, fireVars, poseVars,
                   targets, enemies, maxEnemies, shotVars, loopVars>>

----------------------------------------------------------------------------
(* The loop driver as a function of the frame deltas                       *)

\* the while loop of _loop: the fixed steps it makes, the accumulator it leaves
RECURSIVE DrainSteps(_)
DrainSteps(acc) == IF DrainGoesOn(acc) THEN 1 + DrainSteps(AccAfterStep(acc)) ELSE 0

RECURSIVE DrainLeft(_)
DrainLeft(acc) == IF DrainGoesOn(acc) THEN DrainLeft(AccAfterStep(acc)) ELSE acc

\* _loop on run r, clock.getDelta() returning delta
LoopOn(r, delta) ==
    LET acc == r.acc + LoopDt(delta)
    IN  [acc |-> DrainLeft(acc), steps |-> r.steps + DrainSteps(acc),
         total |-> r.total + delta, frames |-> r.frames + 1,
         clamped |-> r.clamped \/ delta > MAX_FRAME_DT]

gameVars == <<lifeVars, pc, accumulator, clockDelta, health, shopVars, fireVars,
              poseVars, worldVars, shotVars, loopVars, op, ticks, lookVars,
              lastShotTick, frameSteps>>

\* the frame deltas the two runs are given
FrameDeltas == {8, FIXED_STEP, 20, MAX_FRAME_DT, 2 * MAX_FRAME_DT}

FrameA(delta) ==
    /\ pair.a.total + delta <= MaxTotal
    /\ pair' = [pair EXCEPT !.a = LoopOn(@, delta)]
    /\ UNCHANGED gameVars

FrameB(delta) ==
    /\ pair.b.total + delta <= MaxTotal
    /\ pair' = [pair EXCEPT !.b = LoopOn(@, delta)]
    /\ UNCHANGED gameVars

InitAcc == InitPageLoad /\ hasRenderer /\ playerPos.z = 0

NextAcc ==
    \/ \E delta \in FrameDeltas : FrameA(delta)
    \/ \E delta \in FrameDeltas : FrameB(delta)

SpecAcc == InitAcc /\ [][NextAcc]_vars

----------------------------------------------------------------------------
(* What the program draws at random, and the states the runs start from    *)

\* the wander goal: an offset 15 to 40 away from the enemy
Goals == {Pos(3750, 0)}

\* (Math.random() - 0.5) * 20 along both axes
Jitters == {Pos(0, 0), Pos(-750, -750), Pos(-2500, -2500)}

\* shootCooldown: 1 s, the least value 1 + Math.random() * 2 takes
Cooldowns == {840}

\* the time between two frames: one fixed step, or a stall of 5 s
Stalls == {FIXED_STEP, ALERT_WINDOW}

\* start(): _spawnTargets and _spawnEnemies(count) with count = 1; the enemy
\* is in the first zone, the target is ahead of the camera
Scenes ==
    {[targets |-> <<NewTarget(Pos(3000, -2500))>>,
      enemies |-> <<NewEnemy(1, Pos(12500, 12500), t, w, 840)>>] :
        t \in {1}, w \in {"shotgun"}}

\* a game that start() set running, between two tasks, with h health,
\* m money, the weapons un of which number i is equipped, the player at pp
\* looking along f, and the enemies es left of the most that are allowed
Playing(h, m, un, i, pp, f, ts, es, most) ==
    /\ hasRenderer = TRUE /\ game = TRUE /\ started = TRUE /\ running = TRUE
    /\ pendingLoops = 1 /\ pc = "idle" /\ accumulator = 0 /\ clockDelta = 0
    /\ health = h /\ money = m /\ unlocked = un
    /\ currentWeaponIndex = i /\ fireRate = weapons[i + 1].fireRate
    /\ scopeFov = weapons[i + 1].scopeFov
    /\ shooting = FALSE /\ timeSinceLastShot = Interval(weapons[i + 1].fireRate)
    /\ pointerLocked = TRUE
    /\ move = 0 /\ playerPos = pp /\ facing = f
    /\ targets = ts /\ enemies = es /\ respawnAge = 0 /\ maxEnemies = most
    /\ hittables = {} /\ pellet = 0 /\ retPc = "idle"
    /\ aiIdx = 0 /\ respawnI = 0 /\ respawnCount = 0
    /\ op = Op("load", 0, 0)
    /\ ticks = 0
    /\ pair = NoRuns
    /\ targetPitch = 0 /\ smoothedPitch = 0
    /\ lastShotTick = -1 /\ frameSteps = 0

\* an enemy that has hunted the player for lastShot time units without firing
Hunter(id, pos, team, weaponType, lastShot) ==
    [NewEnemy(id, pos, team, weaponType, 840) EXCEPT
        !.state = "hunting_player", !.lastShot = lastShot]

\* an enemy that roams, damaged by the player age time units ago (-1: never)
Roamer(id, pos, team, weaponType, hp, age) ==
    [NewEnemy(id, pos, team, weaponType, 840) EXCEPT
        !.state = "free_roaming", !.health = hp, !.damageAge = age]

----------------------------------------------------------------------------
(* The life of a game: page load, start, the loop, the player's death      *)

\* the player is down to 20 or 30 health; a sniper 5 away is about to fire
InitLastStand ==
    \E h \in {20, 30} :
        Playing(h, START_MONEY, {"smg"}, 2, Pos(3750, -2500), -1, <<>>,
                <<Roamer(1, Pos(12500, 12500), 0, "shotgun", ENEMY_HEALTH, -1),
                  Hunter(2, Pos(2500, -2500), 1, "sniper", 826)>>, 2)

\* an enemy made by _createEnemy stands 10 away from the player, along a
\* street, and has not been through an AI tick yet
InitSpawned ==
    \E off \in {Pos(2500, 0), Pos(-2500, 0), Pos(0, 2500), Pos(0, -2500)} :
        Playing(MAX_HEALTH, START_MONEY, {"smg"}, 2, Pos(2500, -2500), -1, <<>>,
                <<NewEnemy(1, Add(Pos(2500, -2500), off), 0, "shotgun", 840)>>, 2)

InitLife == InitPageLoad \/ InitLastStand \/ InitSpawned

NextLife ==
    \/ \E sc \in Scenes : ClickStart(sc)
    \/ \E sc \in Scenes : CallStart(sc)
    \/ \E sc \in Scenes : CallResume(sc)
    \/ \E d \in Stalls : PassTime(d)
    \/ \E down \in BOOLEAN : KeyMove("KeyW", down)
    \/ AnimationFrame
    \/ FixedUpdateBegin
    \/ \E fire \in BOOLEAN, roll \in BOOLEAN, pick \in {"lo", "hi"}, goal \in Goals :
            UpdateEnemy(fire, roll, pick, FALSE, goal)
    \/ RespawnBegin
    \/ \E jitter \in Jitters, team \in {0}, weaponType \in {"sniper"},
          cooldown \in Cooldowns :
            RespawnOne(jitter, team, weaponType, cooldown)
    \/ RespawnEnd
    \/ Render

SpecLife == InitLife /\ [][NextLife]_vars

\* C2: once the player's health is 0 no further fixed step runs: from a
\* state with health 0 no step is a call of _fixedUpdate.
C2_NoStepAfterDeath == [][health = 0 => ticks' = ticks]_vars

C3_NeverRunsWithoutRenderer ==
    ~hasRenderer => (~running /\ ticks = 0 /\ op.name # "render")

\* C11: the first AI tick of an enemy made by _createEnemy within its
\* detectionRange of the player leaves it in hunting_player, its
\* currentGoal unset, and looking at the player's horizontal position.
C11_SpawnedInRangeHunts ==
    [][(pc = "ai" /\ aiIdx >= 1 /\ aiIdx' = aiIdx - 1 /\ op'.name = "ai"
            /\ enemies[aiIdx].alive /\ enemies[aiIdx].state = "none"
            /\ DistLess(enemies[aiIdx].pos, playerPos, PLAYER_Y - ENEMY_Y,
                        enemies[aiIdx].detectionRange))
        => \E k \in 1..Len(enemies') :
              /\ enemies'[k].id = enemies[aiIdx].id
              /\ enemies'[k].state = "hunting_player"
              /\ enemies'[k].currentGoal = <<>>
              /\ enemies'[k].lookAt = <<Pos(playerPos.x, playerPos.z)>>]_vars

\* C11: the enemy spawned 10 away has had its first tick: it hunts, one step
\* nearer to the player
C11_Witness ==
    /\ op.name = "ai"
    /\ op.a[op.name].state = "hunting_player"
    /\ \E k \in 1..Len(enemies) :
          /\ enemies[k].id = op.a[op.name].id
          /\ enemies[k].lastShot = FIXED_STEP
          /\ enemies[k].currentGoal = <<>>
          /\ enemies[k].lookAt = <<playerPos>>
          /\ DistLess(enemies[k].pos, playerPos, 0, 2500)
          /\ DistMore(enemies[k].pos, playerPos, 0, 2500 - 2 * ENEMY_STEP)

----------------------------------------------------------------------------
(* The shop and the controls, between two frames                           *)

\* the money after k kills, nothing bought yet
Monies == {START_MONEY + KILL_BOUNTY * k : k \in 0..MaxKills}

InitShop ==
    \E m \in Monies :
        Playing(MAX_HEALTH, m, {"smg"}, 2, Pos(3750, -2500), -1, <<>>,
                <<Roamer(1, Pos(12500, 12500), 0, "shotgun", ENEMY_HEALTH, -1),
                  Roamer(2, Pos(-12500, 12500), 1, "sniper", ENEMY_HEALTH, -1)>>, 2)

NextShop ==
    \/ \E id \in WeaponIds : BuyWeapon(id, ShopCost[id])
    \/ \E i \in 0..(Len(weapons) - 1) : KeyDigit(i)
    \/ \E code \in {"KeyW", "KeyS"}, down \in BOOLEAN : KeyMove(code, down)
    \/ Look(40, 0)
    \/ \E locked \in BOOLEAN : PointerLockChange(locked)

SpecShop == InitShop /\ [][NextShop]_vars

\* C4: a purchase of a weapon that is owned or costs more than the money
\* at hand leaves money, the unlocked set, the equipped weapon index and
\* fireRate as they were.
C4_InvalidPurchaseMutatesNothing ==
    [][(op'.name = "buy" /\ pc = "idle"
            /\ (op'.a[op'.name].id \in unlocked \/ money < op'.a[op'.name].cost))
        => UNCHANGED shopVars]_vars

\* C4: a purchase was refused for lack of money
C4_Witness ==
    /\ op.name = "buy"
    /\ ~op.a[op.name].owned /\ op.a[op.name].money < op.a[op.name].cost
    /\ money = op.a[op.name].money

\* C5: the purchase returns true exactly when the weapon was not owned and
\* the money sufficed, so that it was applied, and false otherwise.
C5_PurchaseReturnsBoolean ==
    op.name = "buy" =>
        op.a[op.name].result = (IF ~op.a[op.name].owned /\ op.a[op.name].money >= op.a[op.name].cost THEN "true" ELSE "false")

----------------------------------------------------------------------------
(* One fixed step: movement, autofire, the enemies, the respawn            *)

\* The player holds the smg and looks down a street at enemy 1, 5 ahead and
\* down to 20 health, which hunts them; enemy 2 of the same team roams far away.
InitAdvance ==
    Playing(MAX_HEALTH, 0, {"smg"}, 2, Pos(3750, -2500), -1, <<>>,
            <<[Hunter(1, Pos(2500, -2500), 0, "shotgun", 0) EXCEPT !.health = 20],
              Roamer(2, Pos(-12500, 12500), 0, "sniper", ENEMY_HEALTH, -1)>>, 2)

\* a hunting enemy has walked up to the player and stands 1 away; a
\* teammate of it, 5 away, hunts the player too and is about to fire
InitCrowd ==
    Playing(MAX_HEALTH, 0, {"smg"}, 2, Pos(3750, -2500), -1, <<>>,
            <<Hunter(1, Pos(3500, -2500), 0, "smg", 0),
              Hunter(2, Pos(2500, -2500), 0, "sniper", 826)>>, 2)

\* three enemies out of the player's range: enemy 1 has two rivals of the
\* other team, the one 20 away before the one 10 away in this.enemies
InitRivals ==
    Playing(MAX_HEALTH, 0, {"smg"}, 2, Pos(3750, -2500), -1, <<>>,
            <<Roamer(1, Pos(-2500, 12500), 0, "sniper", ENEMY_HEALTH, -1),
              Roamer(2, Pos(2500, 12500), 1, "smg", ENEMY_HEALTH, -1),
              Roamer(3, Pos(-2500, 10000), 1, "smg", ENEMY_HEALTH, -1)>>, 3)

\* the player presses W and the left button, once each, and keeps them down
NextAdvance ==
    \/ move = 0 /\ KeyMove("KeyW", TRUE)
    \/ ~shooting /\ MouseDown
    \/ \E angle \in PelletAngles(Weapon) : PelletStep(angle)
    \/ ShootEnd
    \/ \E d \in Stalls : PassTime(d)
    \/ AnimationFrame
    \/ FixedUpdateBegin
    \/ AutoShoot
    \/ AutoDone
    \/ \E fire \in BOOLEAN, roll \in BOOLEAN, pick \in {"lo", "hi"}, goal \in Goals :
            UpdateEnemy(fire, roll, pick, FALSE, goal)
    \/ RespawnBegin
    \/ \E team \in {0}, weaponType \in {"sniper"}, cooldown \in Cooldowns :
            RespawnOne(Pos(0, 0), team, weaponType, cooldown)
    \/ RespawnEnd
    \/ Render

SpecAdvance == (InitAdvance \/ InitCrowd \/ InitRivals) /\ [][NextAdvance]_vars

\* C18: a fixed step moves the player first, then runs the autofire check
\* (when the button is down), then the enemies' tick, then the respawn tick.
\* The player's position is set before the autofire and does not change
\* later in the step, so a hunting enemy turns to the position already
\* updated; no shot of the player falls into the enemies' tick or after it;
\* and the respawn tick counts the enemies alive after the step's kills.
C18_StepOrder ==
    [][/\ (pc = "drain" /\ ticks' = ticks + 1)
             => /\ playerPos' = Pos(playerPos.x + move * facing * PLAYER_STEP, playerPos.z)
                /\ pc' = (IF shooting THEN "auto" ELSE "ai")
                /\ enemies' = enemies /\ money' = money
       /\ pc = "auto"
             => pc' \in {"pellet", "ai"} /\ playerPos' = playerPos
       /\ (pc = "pellet" /\ retPc = "auto")
             => pc' \in {"pellet", "auto"} /\ playerPos' = playerPos
       /\ pc = "ai"
             => /\ pc' \in {"ai", "respawn", "drain"}
                /\ playerPos' = playerPos /\ money' = money
                /\ lastShotTick' = lastShotTick
       /\ (pc = "ai" /\ aiIdx >= 1 /\ op'.name = "ai" /\ op'.a[op'.name].state = "hunting_player")
             => \A k \in 1..Len(enemies') :
                    enemies'[k].id = op'.a[op'.name].id => enemies'[k].lookAt = <<playerPos>>
       /\ (pc = "ai" /\ pc' = "respawn")
             => respawnCount' = Min(RESPAWN_BATCH, maxEnemies - Len(enemies))
       /\ pc = "respawn"
             => /\ pc' \in {"respawn", "drain"}
                /\ playerPos' = playerPos /\ money' = money
                /\ lastShotTick' = lastShotTick]_vars

\* C20: a successful hit of an enemy that hunts the player takes the damage
\* off the player's health and changes no enemy's health and removes none,
\* whatever enemies stand near the player.
C20_HuntingHitDamagesPlayer ==
    [][(/\ pc = "ai" /\ aiIdx >= 1 /\ aiIdx' = aiIdx - 1
        /\ op'.name = "ai"
        /\ op'.a[op'.name].state = "hunting_player"
        /\ op'.a[op'.name].hit \in {"player", "enemy"})
        => /\ health' < health \/ health = 0
           /\ Len(enemies') = Len(enemies)
           /\ \A k \in 1..Len(enemies) : enemies'[k].health = enemies[k].health]_vars

\* C21: a successful enemy shot never reduces the health of the shooter or
\* of an enemy of the shooter's own team, and removes none of them: every
\* enemy of the shooter's team is still in this.enemies with the health it
\* had.
C21_ShotSparesOwnTeam ==
    [][(/\ pc = "ai" /\ aiIdx >= 1 /\ aiIdx' = aiIdx - 1
        /\ op'.name = "ai"
        /\ op'.a[op'.name].hit = "enemy")
        => \A k \in 1..Len(enemies) :
              enemies[k].team = enemies[aiIdx].team
                 => \E j \in 1..Len(enemies') :
                        /\ enemies'[j].id = enemies[k].id
                        /\ enemies'[j].health = enemies[k].health]_vars

\* C18: in the first fixed step the player has moved one step forward, the
\* autofire has killed enemy 1, and the respawn tick has counted one enemy
\* missing
C18_Witness ==
    /\ pc = "respawn"
    /\ ticks = 1 /\ lastShotTick = 1
    /\ playerPos = Pos(3750 - PLAYER_STEP, -2500)
    /\ money = KILL_BOUNTY
    /\ Len(enemies) = 1
    /\ respawnCount = 1

----------------------------------------------------------------------------
(* Looking up and down while the loop runs                                 *)

\* movementY of a mouse event, in pixels: a sweep up and flings both ways,
\* each fling farther than the whole range of the pitch
LookDeltas == {300, -2000, 2000}

\* the player stands at a crossing, two enemies of one team roam far away
InitLook ==
    Playing(MAX_HEALTH, START_MONEY, {"smg"}, 2, Pos(2500, -2500), -1, <<>>,
            <<Roamer(1, Pos(12500, 12500), 0, "shotgun", ENEMY_HEALTH, -1),
              Roamer(2, Pos(-12500, 12500), 0, "sniper", ENEMY_HEALTH, -1)>>, 2)

NextLook ==
    \/ \E movementY \in LookDeltas : Look(0, movementY)
    \/ \E d \in Stalls : PassTime(d)
    \/ AnimationFrame
    \/ FixedUpdateBegin
    \/ \E goal \in Goals : UpdateEnemy(FALSE, FALSE, "lo", FALSE, goal)
    \/ RespawnBegin
    \/ Render

SpecLook == InitLook /\ [][NextLook]_vars

\* C15, as stated: the target pitch and the smoothed pitch lie strictly
\* inside the open interval (-pi/2 + eps, pi/2 - eps).
C15_PitchInsideOpenInterval ==
    /\ -PITCH_LIMIT < targetPitch /\ targetPitch < PITCH_LIMIT
    /\ -PITCH_LIMIT < smoothedPitch /\ smoothedPitch < PITCH_LIMIT

\* C15, amended: the target pitch and the smoothed pitch lie in the closed
\* interval [-pi/2 + eps, pi/2 - eps], whose ends the target pitch takes.
C15_PitchInsideClosedInterval ==
    /\ -PITCH_LIMIT <= targetPitch /\ targetPitch <= PITCH_LIMIT
    /\ -PITCH_LIMIT <= smoothedPitch /\ smoothedPitch <= PITCH_LIMIT

\* C15: a fling has put the target pitch on the lower end of the interval,
\* and fixed steps have drawn the smoothed pitch after it
C15_Witness ==
    /\ op.name = "fixedUpdate"
    /\ targetPitch = -PITCH_LIMIT
    /\ smoothedPitch < -(PITCH_LIMIT \div 2)

----------------------------------------------------------------------------
(* Combat: the player's shots, the enemies' shots, the enemies' states     *)

\* The player owns every weapon, holds the shotgun and looks down a street.
\* A target is 3 ahead; enemy 1, 5 ahead, hunts the player; enemy 2, of
\* another team and 25 ahead, is about to fire at enemy 1. Both enemies are
\* down to 20 health from the fire of their rivals.
InitCombat ==
    Playing(MAX_HEALTH, 0, WeaponIds, 0, Pos(3750, -2500), -1,
            <<NewTarget(Pos(3000, -2500))>>,
            <<[Hunter(1, Pos(2500, -2500), 0, "shotgun", 0) EXCEPT !.health = 20],
              [Roamer(2, Pos(-2500, -2500), 1, "sniper", 20, -1) EXCEPT
                  !.state = "fighting_enemy", !.lastShot = 826]>>, 2)

\* the button goes down when it is up and up when it is down; the player
\* picks the weapon before the first frame
NextCombat ==
    \/ ~shooting /\ MouseDown
    \/ shooting /\ MouseUp
    \/ ticks = 0 /\ \E i \in 0..(Len(weapons) - 1) : KeyDigit(i)
    \/ \E angle \in PelletAngles(Weapon) : PelletStep(angle)
    \/ ShootEnd
    \/ \E d \in Stalls : PassTime(d)
    \/ AnimationFrame
    \/ FixedUpdateBegin
    \/ AutoShoot
    \/ AutoDone
    \/ \E fire \in BOOLEAN, roll \in BOOLEAN, pick \in {"lo", "hi"}, goal \in Goals :
            UpdateEnemy(fire, roll, pick, FALSE, goal)
    \/ RespawnBegin
    \/ \E team \in {0}, weaponType \in {"sniper"}, cooldown \in Cooldowns :
            RespawnOne(Pos(0, 0), team, weaponType, cooldown)
    \/ RespawnEnd
    \/ Render

SpecCombat == InitCombat /\ [][NextCombat]_vars

\* C6: after a shot fired with a live target straight ahead at point-blank
\* range (5 or less away, nothing hittable before it), with any weapon, the
\* target is marked alive = false (and the bounty of 5 is credited).
C6_PointBlankShotKillsTarget ==
    op.name = "shot" =>
        \A k \in 1..Len(targets) :
            LET t == [kind |-> "target", id |-> k, pos |-> targets[k].pos]
            IN  (/\ OnRay(t, 0)
                 /\ Ahead(t) <= 1250
                 /\ \A o \in hittables : Ahead(o) >= Ahead(t))
                    => ~targets[k].alive

\* C7: a pellet of the player that brings the enemy it hits to 0 health or
\* below removes that enemy from this.enemies and credits the kill bounty of
\* 15; every other pellet, one that hits the body of an enemy already
\* killed included, credits nothing.
C7_KillRemovesAndPaysOnce ==
    [][(pc = "pellet" /\ pellet' = pellet + 1 /\ op'.name = "pellet") =>
          LET o == op'.a[op'.name]
              lethal == /\ o.kind = "enemy"
                        /\ \E k \in 1..Len(enemies) :
                              /\ enemies[k].id = o.id
                              /\ enemies[k].alive
                              /\ enemies[k].health <= Weapon.damage * DAMAGE_SCALE
          IN  IF lethal
              THEN o.id \notin Ids(enemies') /\ money' = money + KILL_BOUNTY
              ELSE money' = money]_vars

\* C7: a later pellet of the shot has hit the body of the enemy killed, whose
\* bounty is in the money
C7_Witness ==
    /\ op.name = "pellet"
    /\ op.a[op.name].kind = "enemy"
    /\ op.b[op.name] = 0
    /\ op.a[op.name].id \notin Ids(enemies)
    /\ money = KILL_BOUNTY

\* C12: the number of live enemies never exceeds maxEnemies, whatever fixed
\* steps, kills and respawn ticks have happened.
C12_LiveEnemiesWithinMax == AliveEnemies <= maxEnemies

\* C12: after a kill by the player a respawn tick has filled the collection
\* up to maxEnemies again
C12_Witness ==
    /\ op.name = "spawn"
    /\ money >= KILL_BOUNTY
    /\ AliveEnemies = maxEnemies

\* C13: an enemy created by a respawn tick stands outside the footprint of
\* every building, the square that _canMoveTo treats as blocked (the respawn
\* loop has no retry budget to exhaust).
C13_RespawnOutsideFootprints ==
    op.name = "spawn" => ~InsideBuilding(op.a[op.name])

\* C14: two calls of _shoot are never less than 1 / fireRate of simulated
\* time apart: when a shot starts, the fixed steps made since the shot
\* before it add up to the interval of the equipped weapon at least.
C14_ShotsAnIntervalApart ==
    [][(pc # "pellet" /\ pc' = "pellet" /\ lastShotTick # -1)
        => (ticks - lastShotTick) * FIXED_STEP >= Interval(fireRate)]_vars

\* C16: every pellet of a weapon with spread = 0 is fired along the camera
\* direction: the angle between its ray and that direction is 0.
C16_NoSpreadFiresAlongAim ==
    (op.name = "pellet" /\ Weapon.spread = 0) => op.a[op.name].angle = 0

\* C16: the pellet of the sniper (spread 0) has hit the enemy straight ahead
C16_Witness ==
    /\ op.name = "pellet"
    /\ Weapon.id = "sniper" /\ Weapon.spread = 0
    /\ op.a[op.name].kind = "enemy"
    /\ op.a[op.name].angle = 0

\* C19: in one AI tick no enemy is updated twice: two iterations of the
\* loop of _updateEnemies that follow each other in a tick update different
\* enemies, also when the first of them removed an enemy from this.enemies.
C19_NoEnemyUpdatedTwice ==
    [][(pc = "ai" /\ op.name = "ai" /\ aiIdx >= 1 /\ aiIdx' = aiIdx - 1
            /\ op'.name = "ai")
        => op'.a[op'.name].id # op.a[op.name].id]_vars

\* C8: every entry of this.enemies has alive = true and health > 0, after
\* every shot of the player and of an enemy (and at every other time).
C8_LiveEnemiesAliveAndHealthy ==
    \A k \in 1..Len(enemies) : enemies[k].alive /\ enemies[k].health > 0

\* C8: the shot of an enemy has killed another enemy, which is gone
C8_Witness ==
    /\ op.name = "ai"
    /\ op.a[op.name].hit = "enemy"
    /\ op.b[op.name] \notin Ids(enemies)

\* C9: an AI tick of an enemy not damaged in the last 5 s puts it into
\* hunting_player if and only if the player is less than detectionRange
\* away; otherwise into free_roaming or fighting_enemy.
C9_HuntsIffInRange ==
    [][(pc = "ai" /\ aiIdx >= 1 /\ aiIdx' = aiIdx - 1 /\ op'.name = "ai"
            /\ enemies[aiIdx].alive
            /\ (enemies[aiIdx].damageAge = -1 \/ enemies[aiIdx].damageAge >= ALERT_WINDOW))
        => LET e == enemies[aiIdx]
               near == DistLess(e.pos, playerPos, PLAYER_Y - ENEMY_Y, e.detectionRange)
           IN  /\ op'.a[op'.name].state = "hunting_player" <=> near
               /\ ~near => op'.a[op'.name].state \in {"free_roaming", "fighting_enemy"}]_vars

\* C9: an enemy never damaged, with the player in range, was put into
\* hunting_player by its tick
C9_Witness ==
    /\ op.name = "ai"
    /\ op.a[op.name].state = "hunting_player"
    /\ \E k \in 1..Len(enemies) :
          /\ enemies[k].id = op.a[op.name].id
          /\ enemies[k].damageAge = -1
          /\ enemies[k].state = "hunting_player"
          /\ DistLess(enemies[k].pos, playerPos, PLAYER_Y - ENEMY_Y, enemies[k].detectionRange)

----------------------------------------------------------------------------
(* Enemies spawned next to each other                                      *)

\* the farthest zone from the player at (15, -10)
FarZone == Pos(-17500, 17500)

\* (Math.random() - 0.5) * 20 of a respawn that falls 0.4 from the last one
NearJitters == {Pos(100, 0)}

\* the offsets of the roaming goals: along both streets, both ways
Compass == {Pos(3750, 0), Pos(-3750, 0), Pos(0, 3750), Pos(0, -3750)}

\* one enemy has just been spawned at the farthest zone; one more is due
InitSeparation ==
    Playing(MAX_HEALTH, 0, {"smg"}, 2, Pos(3750, -2500), -1, <<>>,
            <<NewEnemy(1, FarZone, 0, "sniper", 840)>>, 2)

\* the frames come 5 s apart; the player stands still
NextSeparation ==
    \/ Elapse(ALERT_WINDOW)
    \/ AnimationFrame
    \/ FixedUpdateBegin
    \/ \E goal \in Compass : UpdateEnemy(FALSE, FALSE, "lo", FALSE, goal)
    \/ RespawnBegin
    \/ \E jitter \in NearJitters : RespawnOne(jitter, 0, "sniper", 840)
    \/ RespawnEnd
    \/ Render

\* the browser keeps calling the loop and the clock keeps running; a started
\* handler runs to its end.  The loop of _updateEnemies, which UpdateEnemy
\* steps through, can go on exactly when pc = "ai" and aiIdx >= 1, so its
\* weak fairness is that this is false again and again.
SpecSeparation ==
    /\ InitSeparation
    /\ [][NextSeparation]_vars
    /\ SF_vars(Elapse(ALERT_WINDOW))
    /\ WF_vars(AnimationFrame)
    /\ WF_vars(FixedUpdateBegin)
    /\ []<>~(pc = "ai" /\ aiIdx >= 1)
    /\ WF_vars(RespawnBegin)
    /\ WF_vars(\E jitter \in NearJitters : RespawnOne(jitter, 0, "sniper", 840))
    /\ WF_vars(RespawnEnd)
    /\ WF_vars(Render)

\* two live enemies stand at p and q, less than the minimum separation
\* apart and not on the same spot
CloseAt(p, q) ==
    /\ DistLess(p, q, 0, MIN_SEPARATION)
    /\ DistMore(p, q, 0, SAME_SPOT)
    /\ \E k, l \in 1..Len(enemies) :
          /\ k # l
          /\ enemies[k].alive /\ enemies[l].alive
          /\ enemies[k].pos = p /\ enemies[l].pos = q

\* where enemy 1 stands after its first roaming step
FirstSteps == {Add(FarZone, Pos(7, 0)), Add(FarZone, Pos(-7, 0)),
               Add(FarZone, Pos(0, 7)), Add(FarZone, Pos(0, -7))}

\* C24: two live enemies closer than the minimum separation and not on the
\* same spot do not block each other for ever: if one stands at p and the
\* other at q, later at least one of them has left its place.
C24_CloseEnemiesGetMoving ==
    \A p \in FirstSteps :
        [](CloseAt(p, Add(FarZone, Pos(100, 0)))
              => <>~CloseAt(p, Add(FarZone, Pos(100, 0))))

\* C25: every enemy a respawn tick creates stands within the jitter box of
\* a zone that is farthest from the player among the fixed zones.
C25_SpawnsAtFarthestZone ==
    op.name = "spawn"
       => \E k \in 1..Len(spawnZones) :
             LET zone == Pos(spawnZones[k].x * ZONE_UNIT, spawnZones[k].z * ZONE_UNIT)
             IN  /\ \A j \in 1..Len(spawnZones) :
                       DistSq(Pos(spawnZones[j].x * ZONE_UNIT, spawnZones[j].z * ZONE_UNIT),
                              playerPos) <= DistSq(zone, playerPos)
                 /\ Abs(op.a[op.name].x - zone.x) <= JITTER_HALF
                 /\ Abs(op.a[op.name].z - zone.z) <= JITTER_HALF

\* C26: the player's health is always within 0..maxHealth and no step
\* raises it.
C26_HealthBoundedNeverRises ==
    /\ health \in 0..MAX_HEALTH
    /\ [][health' \in 0..MAX_HEALTH /\ health' <= health]_vars

\* C26: an enemy's hit has taken the last of the player's health: it is 0
\* and the game is over
C26_Witness ==
    /\ op.name = "ai"
    /\ op.a[op.name].hit = "player"
    /\ health = 0
    /\ ~running

\* C27: after start(), whatever weapon keys are pressed and purchases are
\* made, the equipped weapon is an unlocked one, this.fireRate and
\* this.scopeFov are those of its catalog entry, and no step takes a weapon
\* out of this.unlocked.
C27_EquippedUnlockedAndCached ==
    /\ [](/\ weapons[currentWeaponIndex + 1].id \in unlocked
          /\ fireRate = weapons[currentWeaponIndex + 1].fireRate
          /\ scopeFov = weapons[currentWeaponIndex + 1].scopeFov)
    /\ [][unlocked \subseteq unlocked']_vars

\* C27: the sniper has been bought and its key pressed: it is equipped and
\* its fireRate and scopeFov are the cached ones
C27_Witness ==
    /\ op.name = "digit"
    /\ op.a[op.name] = 1
    /\ op.b[op.name] = TRUE
    /\ currentWeaponIndex = 1
    /\ unlocked = {"smg", "sniper"}
    /\ fireRate = 6
    /\ scopeFov = 12

C22_AlertLastsFiveSimulatedSeconds ==
    [][(pc = "ai" /\ aiIdx >= 1 /\ aiIdx' = aiIdx - 1 /\ op'.name = "ai"
            /\ enemies[aiIdx].alive
            /\ enemies[aiIdx].damageAge # -1
            /\ ticks * FIXED_STEP < ALERT_WINDOW)
        => op'.a[op'.name].state = "hunting_player"]_vars

\* C10: an AI tick of an enemy the player damaged less than 5 s ago puts it
\* into hunting_player when the player is less than twice its detectionRange
\* away; the tick of an enemy last damaged 5 s ago or more, with the player
\* not inside the base range, does not put it into hunting_player.
C10_AlertDoublesRangeThenReverts ==
    [][(pc = "ai" /\ aiIdx >= 1 /\ aiIdx' = aiIdx - 1 /\ op'.name = "ai"
            /\ enemies[aiIdx].alive)
        => LET e == enemies[aiIdx]
               recent == e.damageAge # -1 /\ e.damageAge < ALERT_WINDOW
               inBase == DistLess(e.pos, playerPos, PLAYER_Y - ENEMY_Y, e.detectionRange)
               inTwice == DistLess(e.pos, playerPos, PLAYER_Y - ENEMY_Y, 2 * e.detectionRange)
           IN  /\ (recent /\ inTwice) => op'.a[op'.name].state = "hunting_player"
               /\ (e.damageAge >= ALERT_WINDOW /\ ~inBase)
                      => op'.a[op'.name].state # "hunting_player"]_vars

\* C10: an enemy the player damaged, the player between its base range and
\* twice that, was not put into hunting_player by a tick 5 s after the damage
C10_Witness ==
    /\ op.name = "ai"
    /\ op.a[op.name].state # "hunting_player"
    /\ \E k \in 1..Len(enemies) :
          /\ enemies[k].id = op.a[op.name].id
          /\ enemies[k].damageAge = ALERT_WINDOW
          /\ enemies[k].health < 20
          /\ ~DistLess(enemies[k].pos, playerPos, PLAYER_Y - ENEMY_Y, enemies[k].detectionRange)
          /\ DistLess(enemies[k].pos, playerPos, PLAYER_Y - ENEMY_Y, 2 * enemies[k].detectionRange)


\* C28: at most one loop chain is active: while the game is running there is
\* never more than one pending _loop callback, whatever start(), resume(),
\* animation frames and game over have happened.
C28_OneLoopChain == running => pendingLoops <= 1



----------------------------------------------------------------------------
(* An enemy that keeps firing at the player                                *)

\* the wall-clock time of one frame: six fixed steps, no clamping
FrameTime == 6 * FIXED_STEP

\* start() has just run: a sniper with the shortest shootCooldown stands 19
\* away from the player, inside its detection range, nothing in between
InitVolley ==
    Playing(MAX_HEALTH, 0, {"smg"}, 2, Pos(3750, -2500), -1, <<>>,
            <<NewEnemy(1, Pos(8500, -2500), 0, "sniper", 840)>>, 1)

\* frames 0.1 s apart; the shot delay is the shortest Math.random() gives
\* and every shot hits, with the least or the greatest damage
NextVolley ==
    \/ Elapse(FrameTime)
    \/ AnimationFrame
    \/ FixedUpdateBegin
    \/ \E pick \in {"lo", "hi"}, goal \in Goals : UpdateEnemy(TRUE, TRUE, pick, FALSE, goal)
    \/ RespawnBegin
    \/ Render

SpecVolley == InitVolley /\ [][NextVolley]_vars

\* C29: an enemy's shot is never fired less than its weapon's interval of
\* the fireRates table (sniper 2000 ms) after the same enemy's previous shot.
C29_EnemyShotsKeepInterval ==
    [][\A k \in 1..Len(enemies) :
         (/\ pc = "ai" /\ aiIdx = k
          /\ op'.name = "ai"
          /\ op'.a[op'.name].hit \notin {"none", "gate"}
          /\ enemies[k].shotAge # -1)
         => enemies[k].shotAge >= EnemyFireInterval(enemies[k].weaponType)]_vars


\* C30: a weapon whose automatic flag is false fires one shot per press:
\* while the button is held, the autoshoot loop of _fixedUpdate starts no
\* shot with the shotgun or the sniper.
C30_NonAutomaticFiresOncePerPress ==
    [][(pc = "auto" /\ pc' = "pellet") => Weapon.automatic]_vars

====
